---- MODULE Spec2Model ----
(***************************************************************************)
(* State-machine model of meal_max: the Catalog Service of                 *)
(* models/kitchen_model.py over the "meals" table, and the Battle Engine   *)
(* (models/battle_model.py, exercised by tests/test_battle_model.py).      *)
(*                                                                         *)
(* Every handler is one action.  The handler's body is an operator that    *)
(* maps the table and the inputs to a result record                        *)
(*   [db, exc, msg, ret, conns, stmts, calls]                              *)
(* db: the table afterwards; exc/msg: the exception raised ("none" when    *)
(* the call returns); ret: the returned Python value; conns: connections   *)
(* acquired; stmts: SQL statements executed; calls: calls made to          *)
(* collaborators (get_random, update_meal_stats).                          *)
(***************************************************************************)
EXTENDS Integers, Sequences, FiniteSets, TLC

VARIABLES meals, hasWinPctColumn, combatants, last

vars == <<meals, hasWinPctColumn, combatants, last>>

(***************************************************************************)
(* Bounds and input sets                                                   *)
(***************************************************************************)
\* cap on the battles counter of one row
MaxBattles == 2

\* a price argument: a number (num = TRUE, value v) or a non-number such as "a"
Num(v) == [num |-> TRUE, v |-> v]

NotANumber == [num |-> FALSE, v |-> 0]

MealInput(meal, cuisine, price, difficulty) ==
    [meal |-> meal, cuisine |-> cuisine, price |-> price, difficulty |-> difficulty]

\* argument lists offered to create_meal that pass its validation
ValidMealInputs ==
    { MealInput("Curry", "Thai", Num(1), "LOW"),
      MealInput("Curry", "",     Num(2), "MED"),
      MealInput("Soup",  "Thai", Num(2), "HIGH"),
      MealInput("Soup",  "",     Num(1), "MED") }

\* argument lists offered to create_meal that do not
InvalidMealInputs ==
    { MealInput("Curry", "Thai", Num(0),     "LOW"),
      MealInput("Curry", "Thai", Num(-1),    "MED"),
      MealInput("Soup",  "Thai", NotANumber, "HIGH"),
      MealInput("Soup",  "Thai", Num(1),     "INVALID"),
      MealInput("Curry", "",     Num(0),     "INVALID") }

MealInputs == ValidMealInputs \cup InvalidMealInputs

\* meal names offered to get_meal_by_name
MealNames == { a.meal : a \in MealInputs }

\* ids offered to the by-id operations: every id the table can hold and one more
MealIds == 1 .. (Cardinality(MealNames) + 1)

\* argument lists offered to a direct Meal(...) construction
MealCtorInputs ==
    { [id |-> 1, meal |-> "Meal 1", cuisine |-> "Cuisine 1", price |-> 1, difficulty |-> "LOW"],
      [id |-> 2, meal |-> "Meal 2", cuisine |-> "Cuisine 2", price |-> 2, difficulty |-> "MED"],
      [id |-> 4, meal |-> "Meal Invalid", cuisine |-> "Cuisine Invalid", price |-> -1,
       difficulty |-> "LOW"],
      [id |-> 5, meal |-> "Low Score", cuisine |-> "", price |-> 0, difficulty |-> "LOW"],
      [id |-> 6, meal |-> "High Score", cuisine |-> "High Cuisine", price |-> 100,
       difficulty |-> "HIGH"],
      [id |-> 7, meal |-> "Meal 7", cuisine |-> "Thai", price |-> 3, difficulty |-> "INVALID"] }

\* SQL NULL in an integer column
SqlNull == -1

\* result arguments offered to update_meal_stats
ResultInputs == {"win", "loss", "wins", "draw"}

\* sort_by arguments offered to get_leaderboard; Omitted is a call without the argument
Omitted == "<omitted>"

SortInputs == {Omitted, "wins", "win_pct", "price", "bogus"}

\* what the storage layer can do to a statement: run it, or fail with an sqlite3.Error
NoFault == [exc |-> "none", msg |-> ""]

DiskFault == [exc |-> "sqlite3.OperationalError", msg |-> "disk I/O error"]

Faults == {NoFault, DiskFault}

(***************************************************************************)
(* Python values and results                                               *)
(***************************************************************************)
NoneVal == [kind |-> "None"]

PyList(items) == [kind |-> "list", items |-> items]

PyStr(s) == [kind |-> "str", s |-> s]

PyInt(v) == [kind |-> "int", v |-> v]

Ok(db, ret, conns, stmts, calls) ==
    [db |-> db, exc |-> "none", msg |-> "", ret |-> ret,
     conns |-> conns, stmts |-> stmts, calls |-> calls]

Raise(db, exc, msg, conns, stmts, calls) ==
    [db |-> db, exc |-> exc, msg |-> msg, ret |-> NoneVal,
     conns |-> conns, stmts |-> stmts, calls |-> calls]

\* Python sequence[i] for an int i: 0-based, negative i counts from the end
PyIndex(seq, i) == IF i >= 0 THEN seq[i + 1] ELSE seq[Len(seq) + i + 1]

(***************************************************************************)
(* Meal Record Model                                                       *)
(***************************************************************************)
Difficulties == {"LOW", "MED", "HIGH"}

\* fields the Meal dataclass declares
MealFields == {"id", "meal", "cuisine", "price", "difficulty"}

\* Meal.__post_init__: the checks made on construction
MealPostInit(price, difficulty) ==
    IF price < 0 THEN [exc |-> "ValueError", msg |-> "Price must be a positive value."]
    ELSE IF difficulty \notin Difficulties
         THEN [exc |-> "ValueError", msg |-> "Difficulty must be 'LOW', 'MED', or 'HIGH'."]
         ELSE NoFault

Meal(id, meal, cuisine, price, difficulty) ==
    [kind |-> "Meal", id |-> id, meal |-> meal, cuisine |-> cuisine,
     price |-> price, difficulty |-> difficulty]

\* Meal(id, meal, cuisine, price, difficulty): the generated __init__ followed
\* by __post_init__
MealInit(db, id, meal, cuisine, price, difficulty) ==
    LET chk == MealPostInit(price, difficulty)
    IN  IF chk.exc # "none"
        THEN Raise(db, chk.exc, chk.msg, 0, <<>>, <<>>)
        ELSE Ok(db, Meal(id, meal, cuisine, price, difficulty), 0, <<>>, <<>>)

(***************************************************************************)
(* The meals table                                                         *)
(***************************************************************************)
\* NewRow with the meal and cuisine values bound to each other's column
NewRowSwappedColumns(id, meal, cuisine, price, difficulty) ==
    [id |-> id, meal |-> cuisine, cuisine |-> meal, price |-> price,
     difficulty |-> difficulty, deleted |-> FALSE, battles |-> 0, wins |-> 0,
     win_pct |-> SqlNull]

\* a freshly inserted row: the column defaults of the schema
NewRow(id, meal, cuisine, price, difficulty) ==
    [id |-> id, meal |-> meal, cuisine |-> cuisine, price |-> price,
     difficulty |-> difficulty, deleted |-> FALSE, battles |-> 0, wins |-> 0,
     win_pct |-> SqlNull]

\* SELECT ... WHERE id = ?  (zero or one row)
RowsById(db, meal_id) == SelectSeq(db, LAMBDA r : r.id = meal_id)

\* SELECT ... WHERE meal = ?
RowsByName(db, meal_name) == SelectSeq(db, LAMBDA r : r.meal = meal_name)

\* UNIQUE constraint on meals.meal: it looks at every row, deleted or not
NameTaken(db, meal) == \E i \in 1 .. Len(db) : db[i].meal = meal

(***************************************************************************)
(* create_meal                                                             *)
(***************************************************************************)
\* ValidPrice with `price < 0` in place of `price <= 0`
ValidPriceAllowsZero(price) == price.num /\ price.v >= 0

\* `not isinstance(price, (int, float)) or price <= 0` is False
ValidPrice(price) == price.num /\ price.v > 0

ValidDifficulty(difficulty) == difficulty \in Difficulties

\* INSERT INTO meals (meal, cuisine, price, difficulty) VALUES (?, ?, ?, ?); commit
ExecInsert(db, meal, cuisine, price, difficulty, fault) ==
    IF fault.exc # "none" THEN [db |-> db, err |-> fault]
    ELSE IF NameTaken(db, meal)
         THEN [db |-> db,
               err |-> [exc |-> "sqlite3.IntegrityError",
                        msg |-> "UNIQUE constraint failed: meals.meal"]]
         ELSE [db |-> Append(db, NewRow(Len(db) + 1, meal, cuisine, price, difficulty)),
               err |-> NoFault]

\* CreateExcept with every sqlite3.Error reported as a duplicate name
CreateExceptAllDuplicate(err) == [exc |-> "ValueError", msg |-> "already exists"]

\* the except clauses of create_meal: what the caller sees for a storage error
CreateExcept(err) ==
    IF err.exc = "sqlite3.IntegrityError"
    THEN [exc |-> "ValueError", msg |-> "already exists"]
    ELSE err

create_meal(db, meal, cuisine, price, difficulty, fault) ==
    IF ~ValidPrice(price)
    THEN Raise(db, "ValueError", "Invalid price", 0, <<>>, <<>>)
    ELSE IF ~ValidDifficulty(difficulty)
    THEN Raise(db, "ValueError", "Invalid difficulty level", 0, <<>>, <<>>)
    ELSE LET ins == ExecInsert(db, meal, cuisine, price.v, difficulty, fault)
         IN  IF ins.err.exc # "none"
             THEN LET e == CreateExcept(ins.err)
                  IN  Raise(ins.db, e.exc, e.msg, 1, <<"INSERT">>, <<>>)
             ELSE Ok(ins.db, NoneVal, 1, <<"INSERT", "COMMIT">>, <<>>)

(***************************************************************************)
(* delete_meal                                                             *)
(***************************************************************************)
\* SetDeleted as a physical removal: DELETE FROM meals WHERE id = ?
SetDeletedRemovesRow(db, meal_id) == SelectSeq(db, LAMBDA r : r.id # meal_id)

\* UPDATE meals SET deleted = TRUE WHERE id = ?
SetDeleted(db, meal_id) ==
    [i \in 1 .. Len(db) |->
        IF db[i].id = meal_id THEN [db[i] EXCEPT !.deleted = TRUE] ELSE db[i]]

\* DeletedLookup without the test of the deleted flag
DeletedLookupIgnoresFlag(db, meal_id) ==
    IF Len(RowsById(db, meal_id)) = 0
    THEN [exc |-> "ValueError", msg |-> "not found"]
    ELSE NoFault

\* the lookup shared by delete_meal and update_meal_stats:
\* cursor.fetchone()[0] on "SELECT deleted FROM meals WHERE id = ?"
DeletedLookup(db, meal_id) ==
    LET rows == RowsById(db, meal_id)
    IN  IF Len(rows) = 0
        THEN [exc |-> "ValueError", msg |-> "not found"]
        ELSE IF rows[1].deleted
             THEN [exc |-> "ValueError", msg |-> "has been deleted"]
             ELSE NoFault

delete_meal(db, meal_id) ==
    LET chk == DeletedLookup(db, meal_id)
    IN  IF chk.exc # "none"
        THEN Raise(db, chk.exc, chk.msg, 1, <<"SELECT deleted">>, <<>>)
        ELSE Ok(SetDeleted(db, meal_id), NoneVal, 1,
                <<"SELECT deleted", "UPDATE deleted", "COMMIT">>, <<>>)

(***************************************************************************)
(* get_leaderboard                                                         *)
(***************************************************************************)
\* the default of the sort_by parameter
DefaultSortBy == "wins"

\* the value the parameter takes for a call's argument
SortByParam(arg) == IF arg = Omitted THEN DefaultSortBy ELSE arg

\* the if/elif chain that appends ORDER BY; anything else raises
ValidSortBy(sort_by) == sort_by \in {"win_pct", "wins", "price"}

\* Qualifies without `deleted = false`
QualifiesIgnoresDeleted(r) == r.battles > 0

\* WHERE deleted = false AND battles > 0
Qualifies(r) == r.deleted = FALSE /\ r.battles > 0

\* ORDER BY <key> DESC allows a before b; win_pct is wins * 1.0 / battles,
\* compared here as a fraction (battles > 0 on every selected row)
OrderAllows(sort_by, a, b) ==
    CASE sort_by = "win_pct" -> a.wins * b.battles >= b.wins * a.battles
      [] sort_by = "wins"    -> a.wins >= b.wins
      [] sort_by = "price"   -> a.price >= b.price
      [] OTHER               -> TRUE

\* the row orders cursor.fetchall() can produce: every qualifying row once,
\* sorted by the key; rows with equal keys come in any order
FetchOrders(db, sort_by) ==
    LET q == SelectSeq(db, Qualifies)
        n == Len(q)
    IN  { [i \in 1 .. n |-> q[p[i]]] :
            p \in { f \in [1 .. n -> 1 .. n] :
                      /\ \A i, j \in 1 .. n : i # j => f[i] # f[j]
                      /\ \A i, j \in 1 .. n :
                            i < j => OrderAllows(sort_by, q[f[i]], q[f[j]]) } }

\* the dict built for one row
RowDict(row) ==
    [kind |-> "dict", id |-> row.id, meal |-> row.meal, cuisine |-> row.cuisine,
     price |-> row.price, difficulty |-> row.difficulty, battles |-> row.battles,
     wins |-> row.wins, win_pct |-> <<row.wins, row.battles>>]

\* what the loop appends for one row: `meal = [ {...} ]`, a one-element list
LeaderboardEntry(row) == PyList(<<RowDict(row)>>)

\* rows: the fetchall() result, one of FetchOrders(db, sort_by)
get_leaderboard(db, sort_by, rows) ==
    IF ~ValidSortBy(sort_by)
    THEN Raise(db, "ValueError", "Invalid sort_by parameter", 0, <<>>, <<>>)
    ELSE IF Len(rows) = 0
         THEN Ok(db, PyList(<<>>), 1, <<"SELECT leaderboard">>, <<>>)
         ELSE Ok(db, PyList([i \in 1 .. Len(rows) |-> LeaderboardEntry(rows[i])]),
                 1, <<"SELECT leaderboard">>, <<>>)

(***************************************************************************)
(* get_meal_by_id, get_meal_by_name                                        *)
(***************************************************************************)
\* MealFromRows without the test of row[5], the deleted column
MealFromRowsIgnoresFlag(db, rows, stmt) ==
    IF Len(rows) > 0
    THEN Ok(db, Meal(rows[1].id, rows[1].meal, rows[1].cuisine, rows[1].price,
                     rows[1].difficulty), 1, <<stmt>>, <<>>)
    ELSE Raise(db, "ValueError", "not found", 1, <<stmt>>, <<>>)

\* the body shared by both lookups, on the fetchone() result
MealFromRows(db, rows, stmt) ==
    IF Len(rows) > 0
    THEN IF rows[1].deleted
         THEN Raise(db, "ValueError", "has been deleted", 1, <<stmt>>, <<>>)
         ELSE LET row == rows[1]
                  chk == MealPostInit(row.price, row.difficulty)
              IN  IF chk.exc # "none"
                  THEN Raise(db, chk.exc, chk.msg, 1, <<stmt>>, <<>>)
                  ELSE Ok(db, Meal(row.id, row.meal, row.cuisine, row.price,
                                   row.difficulty), 1, <<stmt>>, <<>>)
    ELSE Raise(db, "ValueError", "not found", 1, <<stmt>>, <<>>)

get_meal_by_id(db, meal_id) ==
    MealFromRows(db, RowsById(db, meal_id), "SELECT by id")

get_meal_by_name(db, meal_name) ==
    MealFromRows(db, RowsByName(db, meal_name), "SELECT by name")

(***************************************************************************)
(* get_random_meal                                                         *)
(***************************************************************************)
\* value["key"]: only a dict takes a string subscript
StrSubscriptable(value) == value.kind = "dict"

\* keyword arguments of the Meal(...) call in get_random_meal
RandomMealKwargs ==
    {"id", "meal", "cuisine", "price", "difficulty", "battles", "wins", "win_pct"}

\* rows: the fetchall() result of the inner get_leaderboard("wins");
\* random_index: what get_random(len(leaderboard)) returns
get_random_meal(db, rows, random_index) ==
    LET lb == get_leaderboard(db, "wins", rows)
    IN  IF lb.exc # "none" THEN lb
        ELSE IF Len(lb.ret.items) = 0
        THEN Raise(db, "ValueError", "The meal database is empty.",
                   lb.conns, lb.stmts, <<>>)
        ELSE LET leaderboard == lb.ret.items
                 calls == <<[fn |-> "get_random", arg1 |-> Len(leaderboard), arg2 |-> ""]>>
                 meal_data == PyIndex(leaderboard, random_index - 1)
             IN  IF ~StrSubscriptable(meal_data)
                 THEN Raise(db, "TypeError", "list indices must be integers or slices, not str",
                            lb.conns, lb.stmts, calls)
                 ELSE IF ~(RandomMealKwargs \subseteq MealFields)
                 THEN Raise(db, "TypeError", "unexpected keyword argument",
                            lb.conns, lb.stmts, calls)
                 ELSE LET chk == MealPostInit(meal_data.price, meal_data.difficulty)
                      IN  IF chk.exc # "none"
                          THEN Raise(db, chk.exc, chk.msg, lb.conns, lb.stmts, calls)
                          ELSE Ok(db, Meal(meal_data.id, meal_data.meal, meal_data.cuisine,
                                           meal_data.price, meal_data.difficulty),
                                  lb.conns, lb.stmts, calls)

(***************************************************************************)
(* update_meal_stats                                                       *)
(***************************************************************************)
\* update_meal_stats with the result examined before the deleted-flag lookup
update_meal_stats_ResultFirst(db, meal_id, result, hasCol) ==
    IF result # "wins"
    THEN Raise(db, "ValueError", "Invalid result", 1, <<>>, <<>>)
    ELSE LET chk == DeletedLookup(db, meal_id)
         IN  IF chk.exc # "none"
             THEN Raise(db, chk.exc, chk.msg, 1, <<"SELECT deleted">>, <<>>)
             ELSE Ok([i \in 1 .. Len(db) |->
                        IF db[i].id = meal_id
                        THEN [db[i] EXCEPT !.wins = @ + 1, !.battles = @ + 1]
                        ELSE db[i]],
                     NoneVal, 1, <<"SELECT deleted", "UPDATE stats", "COMMIT">>, <<>>)

\* the result value the `if` accepts
AcceptedResult(result) == result = "wins"

\* SQLite integer division: NULL when the divisor is 0
SqlDiv(a, b) == IF b = 0 THEN SqlNull ELSE a \div b

\* StatsUpdate without `battles = battles + 1`
StatsUpdateWinsOnly(row) ==
    [row EXCEPT !.wins = row.wins + 1, !.win_pct = SqlDiv(row.wins, row.battles)]

\* UPDATE meals SET wins = wins + 1, battles = battles + 1,
\*                  win_pct = wins/battles * 1.0 WHERE id = ?
\* (the right-hand sides read the row as it was before the statement)
StatsUpdate(row) ==
    [row EXCEPT !.wins = row.wins + 1, !.battles = row.battles + 1,
                !.win_pct = SqlDiv(row.wins, row.battles)]

\* hasCol: the meals table has a win_pct column
ExecStatsUpdate(db, meal_id, hasCol) ==
    IF ~hasCol
    THEN [db |-> db,
          err |-> [exc |-> "sqlite3.OperationalError", msg |-> "no such column: win_pct"]]
    ELSE [db |-> [i \in 1 .. Len(db) |->
                    IF db[i].id = meal_id THEN StatsUpdate(db[i]) ELSE db[i]],
          err |-> NoFault]

update_meal_stats(db, meal_id, result, hasCol) ==
    LET chk == DeletedLookup(db, meal_id)
    IN  IF chk.exc # "none"
        THEN Raise(db, chk.exc, chk.msg, 1, <<"SELECT deleted">>, <<>>)
        ELSE IF AcceptedResult(result)
        THEN LET upd == ExecStatsUpdate(db, meal_id, hasCol)
             IN  IF upd.err.exc # "none"
                 THEN Raise(upd.db, upd.err.exc, upd.err.msg, 1,
                            <<"SELECT deleted", "UPDATE stats">>, <<>>)
                 ELSE Ok(upd.db, NoneVal, 1,
                         <<"SELECT deleted", "UPDATE stats", "COMMIT">>, <<>>)
        ELSE Raise(db, "ValueError", "Invalid result", 1, <<"SELECT deleted">>, <<>>)

(***************************************************************************)
(* Battle Engine (BattleModel): the combatant slot list and battle()       *)
(***************************************************************************)
\* capacity of the slot list
MaxCombatants == 2

EngineOk(db, slots, ret, calls) ==
    [db |-> db, slots |-> slots, exc |-> "none", msg |-> "", ret |-> ret,
     conns |-> 0, stmts |-> <<>>, calls |-> calls]

EngineRaise(db, slots, exc, msg, calls) ==
    [db |-> db, slots |-> slots, exc |-> exc, msg |-> msg, ret |-> NoneVal,
     conns |-> 0, stmts |-> <<>>, calls |-> calls]

\* prep_combatant that replaces the second slot when the list is full
prep_combatant_Overwrites(db, slots, meal) ==
    IF Len(slots) >= MaxCombatants
    THEN EngineOk(db, <<slots[1], meal>>, NoneVal, <<>>)
    ELSE EngineOk(db, Append(slots, meal), NoneVal, <<>>)

prep_combatant(db, slots, meal) ==
    IF Len(slots) >= MaxCombatants
    THEN EngineRaise(db, slots, "ValueError",
                     "Combatant list is full, cannot add more combatants.", <<>>)
    ELSE EngineOk(db, Append(slots, meal), NoneVal, <<>>)

get_combatants(db, slots) == EngineOk(db, slots, PyList(slots), <<>>)

clear_combatants(db, slots) == EngineOk(db, <<>>, NoneVal, <<>>)

StatsCall(meal_id, result) ==
    [fn |-> "update_meal_stats", arg1 |-> meal_id, arg2 |-> result]

\* first_wins: the draw of the Random Source fell under the first combatant's
\* win probability
battle(db, slots, first_wins, hasCol) ==
    IF Len(slots) # MaxCombatants
    THEN EngineRaise(db, slots, "ValueError",
                     "Two combatants must be prepped for a battle.", <<>>)
    ELSE LET winner == IF first_wins THEN slots[1] ELSE slots[2]
             loser  == IF first_wins THEN slots[2] ELSE slots[1]
             draw   == [fn |-> "get_random", arg1 |-> 0, arg2 |-> ""]
             w      == update_meal_stats(db, winner.id, "win", hasCol)
             c1     == <<draw, StatsCall(winner.id, "win")>>
         IN  IF w.exc # "none"
             THEN EngineRaise(w.db, slots, w.exc, w.msg, c1)
             ELSE LET l  == update_meal_stats(w.db, loser.id, "loss", hasCol)
                      c2 == Append(c1, StatsCall(loser.id, "loss"))
                  IN  IF l.exc # "none"
                      THEN EngineRaise(l.db, slots, l.exc, l.msg, c2)
                      ELSE EngineOk(l.db, slots, PyStr(winner.meal), c2)

\* len(cuisine) for the cuisine labels in use
StrLen(str) ==
    CASE str = ""                -> 0
      [] str = "Thai"            -> 4
      [] str = "Cuisine 1"       -> 9
      [] str = "Cuisine 2"       -> 9
      [] str = "High Cuisine"    -> 12
      [] str = "Cuisine Invalid" -> 15

\* DifficultyModifier with the multipliers LOW 1, MED 2, HIGH 3
DifficultyModifierAscending(difficulty) ==
    CASE difficulty = "LOW" -> 1 [] difficulty = "MED" -> 2 [] difficulty = "HIGH" -> 3

\* the deduction per difficulty
DifficultyModifier(difficulty) ==
    CASE difficulty = "LOW" -> 3 [] difficulty = "MED" -> 2 [] difficulty = "HIGH" -> 1

\* the score the battle tests expect of get_battle_score:
\* -3 for (0, "", LOW), 1199 for (100, "High Cuisine", HIGH),
\* 6 for (1, "Cuisine 1", LOW), 16 for (2, "Cuisine 2", MED)
BattleScore(meal) == meal.price * StrLen(meal.cuisine) - DifficultyModifier(meal.difficulty)

get_battle_score(db, slots, meal) == EngineOk(db, slots, PyInt(BattleScore(meal)), <<>>)

\* the Meal of a stored row, as get_meal_by_id returned it to the caller
MealOfRow(row) == Meal(row.id, row.meal, row.cuisine, row.price, row.difficulty)

(***************************************************************************)
(* State machine                                                           *)
(***************************************************************************)
Record(op, args, r) ==
    [op |-> op, args |-> args, exc |-> r.exc, msg |-> r.msg, ret |-> r.ret,
     conns |-> r.conns, stmts |-> r.stmts, calls |-> r.calls]

Init ==
    /\ meals = <<>>
    /\ hasWinPctColumn \in BOOLEAN
    /\ combatants = <<>>
    /\ last = [op |-> "init", args |-> NoneVal, exc |-> "none", msg |-> "",
               ret |-> NoneVal, conns |-> 0, stmts |-> <<>>, calls |-> <<>>]

CreateMeal ==
    \E a \in MealInputs, fault \in Faults :
        LET r == create_meal(meals, a.meal, a.cuisine, a.price, a.difficulty, fault)
        IN  /\ meals' = r.db
            /\ last' = Record("create_meal",
                              [meal |-> a.meal, cuisine |-> a.cuisine, price |-> a.price,
                               difficulty |-> a.difficulty, fault |-> fault], r)
            /\ UNCHANGED <<hasWinPctColumn, combatants>>

DeleteMeal ==
    \E meal_id \in MealIds :
        LET r == delete_meal(meals, meal_id)
        IN  /\ meals' = r.db
            /\ last' = Record("delete_meal", [meal_id |-> meal_id], r)
            /\ UNCHANGED <<hasWinPctColumn, combatants>>

GetLeaderboard ==
    \E arg \in SortInputs :
        \E rows \in FetchOrders(meals, SortByParam(arg)) :
            LET r == get_leaderboard(meals, SortByParam(arg), rows)
            IN  /\ last' = Record("get_leaderboard", [sort_by |-> arg], r)
                /\ meals' = r.db
                /\ UNCHANGED <<hasWinPctColumn, combatants>>

GetMealById ==
    \E meal_id \in MealIds :
        LET r == get_meal_by_id(meals, meal_id)
        IN  /\ last' = Record("get_meal_by_id", [meal_id |-> meal_id], r)
            /\ meals' = r.db
            /\ UNCHANGED <<hasWinPctColumn, combatants>>

GetMealByName ==
    \E meal_name \in MealNames :
        LET r == get_meal_by_name(meals, meal_name)
            \* created: the call directly follows a successful create_meal of this name
            created == /\ last.op = "create_meal"
                       /\ last.exc = "none"
                       /\ last.args.meal = meal_name
        IN  /\ last' = Record("get_meal_by_name",
                              [meal_name |-> meal_name, created |-> created], r)
            /\ meals' = r.db
            /\ UNCHANGED <<hasWinPctColumn, combatants>>

\* get_random(n) returns an integer in 1 .. n
GetRandomMeal ==
    \E rows \in FetchOrders(meals, "wins") :
        \E random_index \in 1 .. (IF Len(rows) = 0 THEN 1 ELSE Len(rows)) :
            LET r == get_random_meal(meals, rows, random_index)
            IN  /\ last' = Record("get_random_meal",
                                  [rows |-> rows, random_index |-> random_index], r)
                /\ meals' = r.db
                /\ UNCHANGED <<hasWinPctColumn, combatants>>

UpdateMealStats ==
    \E meal_id \in MealIds, result \in ResultInputs :
        LET r == update_meal_stats(meals, meal_id, result, hasWinPctColumn)
        IN  /\ \A i \in 1 .. Len(r.db) : r.db[i].battles <= MaxBattles
            /\ last' = Record("update_meal_stats",
                              [meal_id |-> meal_id, result |-> result], r)
            /\ meals' = r.db
            /\ UNCHANGED <<hasWinPctColumn, combatants>>

\* the caller preps a Meal it fetched from the catalog (the row may have been
\* deleted since)
PrepCombatant ==
    \E i \in 1 .. Len(meals) :
        LET r == prep_combatant(meals, combatants, MealOfRow(meals[i]))
        IN  /\ combatants' = r.slots
            /\ meals' = r.db
            /\ last' = Record("prep_combatant", [meal |-> MealOfRow(meals[i])], r)
            /\ UNCHANGED hasWinPctColumn

GetCombatants ==
    LET r == get_combatants(meals, combatants)
    IN  /\ combatants' = r.slots
        /\ meals' = r.db
        /\ last' = Record("get_combatants", NoneVal, r)
        /\ UNCHANGED hasWinPctColumn

ClearCombatants ==
    LET r == clear_combatants(meals, combatants)
    IN  /\ combatants' = r.slots
        /\ meals' = r.db
        /\ last' = Record("clear_combatants", NoneVal, r)
        /\ UNCHANGED hasWinPctColumn

Battle ==
    \E first_wins \in BOOLEAN :
        LET r == battle(meals, combatants, first_wins, hasWinPctColumn)
        IN  /\ \A i \in 1 .. Len(r.db) : r.db[i].battles <= MaxBattles
            /\ combatants' = r.slots
            /\ meals' = r.db
            /\ last' = Record("battle", [first_wins |-> first_wins], r)
            /\ UNCHANGED hasWinPctColumn

\* the caller builds a Meal itself
ConstructMeal ==
    \E a \in MealCtorInputs :
        LET r == MealInit(meals, a.id, a.meal, a.cuisine, a.price, a.difficulty)
        IN  /\ meals' = r.db
            /\ last' = Record("Meal", a, r)
            /\ UNCHANGED <<hasWinPctColumn, combatants>>

\* the Meals a caller can hold: built by the caller, or fetched from the catalog
HeldMeals ==
    { MealInit(meals, a.id, a.meal, a.cuisine, a.price, a.difficulty).ret :
        a \in { b \in MealCtorInputs : MealPostInit(b.price, b.difficulty).exc = "none" } }
    \cup { MealOfRow(meals[i]) : i \in 1 .. Len(meals) }

GetBattleScore ==
    \E meal \in HeldMeals :
        LET r == get_battle_score(meals, combatants, meal)
        IN  /\ combatants' = r.slots
            /\ meals' = r.db
            /\ last' = Record("get_battle_score", [meal |-> meal], r)
            /\ UNCHANGED hasWinPctColumn

Next ==
    \/ CreateMeal
    \/ DeleteMeal
    \/ GetLeaderboard
    \/ GetMealById
    \/ GetMealByName
    \/ GetRandomMeal
    \/ UpdateMealStats
    \/ PrepCombatant
    \/ GetCombatants
    \/ ClearCombatants
    \/ Battle
    \/ ConstructMeal
    \/ GetBattleScore

Spec == Init /\ [][Next]_vars

(***************************************************************************)
(* Properties                                                              *)
(***************************************************************************)
HasRow(db, meal_id) == \E i \in 1 .. Len(db) : db[i].id = meal_id

RowWithId(db, meal_id) == db[CHOOSE i \in 1 .. Len(db) : db[i].id = meal_id]

LiveRow(db, meal_id) == HasRow(db, meal_id) /\ ~RowWithId(db, meal_id).deleted

\* C1: for every existing, non-deleted meal id, update_meal_stats(id, "win")
\* succeeds and raises that meal's battles by exactly 1 and its wins by
\* exactly 1, and no update_meal_stats call lowers a counter of any meal.
C1_WinIncrementsBoth ==
    [][ (last'.op = "update_meal_stats" /\ HasRow(meals, last'.args.meal_id))
        => /\ \A i \in 1 .. Len(meals) :
                 /\ meals'[i].battles >= meals[i].battles
                 /\ meals'[i].wins >= meals[i].wins
           /\ (last'.args.result = "win" /\ LiveRow(meals, last'.args.meal_id))
                 => /\ last'.exc = "none"
                    /\ RowWithId(meals', last'.args.meal_id).battles
                         = RowWithId(meals, last'.args.meal_id).battles + 1
                    /\ RowWithId(meals', last'.args.meal_id).wins
                         = RowWithId(meals, last'.args.meal_id).wins + 1 ]_vars

\* C2: for every existing, non-deleted meal id, update_meal_stats(id, "loss")
\* succeeds, raises that meal's battles by exactly 1 and leaves its wins as
\* they were.
C2_LossIncrementsBattlesOnly ==
    [][ ( /\ last'.op = "update_meal_stats"
          /\ last'.args.result = "loss"
          /\ LiveRow(meals, last'.args.meal_id) )
        => /\ last'.exc = "none"
           /\ RowWithId(meals', last'.args.meal_id).battles
                = RowWithId(meals, last'.args.meal_id).battles + 1
           /\ RowWithId(meals', last'.args.meal_id).wins
                = RowWithId(meals, last'.args.meal_id).wins ]_vars

\* the update_meal_stats calls a handler made, in order
StatsCallsOf(calls) == SelectSeq(calls, LAMBDA c : c.fn = "update_meal_stats")

\* C3: battle() fails with the "two combatants must be prepped" error unless
\* exactly two combatants are prepped; with two stored, non-deleted meals
\* prepped it succeeds, returns the name of one of the two, and calls
\* update_meal_stats exactly once per combatant: "win" for the winner's id and
\* "loss" for the loser's id.
C3_BattleRecordsOutcome ==
    [][ last'.op = "battle"
        => IF Len(combatants) # 2
           THEN /\ last'.exc = "ValueError"
                /\ last'.msg = "Two combatants must be prepped for a battle."
           ELSE (\A k \in 1 .. 2 : LiveRow(meals, combatants[k].id))
                => /\ last'.exc = "none"
                   /\ last'.ret.kind = "str"
                   /\ \E w, l \in 1 .. 2 :
                         /\ w # l
                         /\ last'.ret.s = combatants[w].meal
                         /\ StatsCallsOf(last'.calls)
                              = << StatsCall(combatants[w].id, "win"),
                                   StatsCall(combatants[l].id, "loss") >> ]_vars

\* C4: with n >= 1 leaderboard entries, get_random_meal asks get_random for an
\* index with argument n and, for the index k in 1..n it gets, returns the Meal
\* with the id, name, cuisine, price and difficulty of the k-th entry.
C4_RandomMealIsKthEntry ==
    (last.op = "get_random_meal" /\ Len(last.args.rows) >= 1)
    => /\ last.calls = << [fn |-> "get_random", arg1 |-> Len(last.args.rows), arg2 |-> ""] >>
       /\ last.exc = "none"
       /\ last.ret.kind = "Meal"
       /\ LET row == last.args.rows[last.args.random_index]
          IN  /\ last.ret.id = row.id
              /\ last.ret.meal = row.meal
              /\ last.ret.cuisine = row.cuisine
              /\ last.ret.price = row.price
              /\ last.ret.difficulty = row.difficulty
              /\ ~row.deleted
              /\ row.battles >= 1

\* the record a leaderboard element carries, whether or not it is wrapped
EntryRecord(e) == IF e.kind = "list" THEN e.items[1] ELSE e

C6_LeaderboardIsFlat ==
    (last.op = "get_leaderboard" /\ last.exc = "none")
    => /\ last.ret.kind = "list"
       /\ Len(last.ret.items)
            = Cardinality({ j \in 1 .. Len(meals) :
                              ~meals[j].deleted /\ meals[j].battles > 0 })
       /\ \A i \in 1 .. Len(last.ret.items) :
             /\ last.ret.items[i].kind = "dict"
             /\ {"id", "meal", "cuisine", "price", "difficulty"}
                  \subseteq DOMAIN last.ret.items[i]

\* C7 as stated: for valid arguments with a name not yet stored, create_meal
\* followed by get_meal_by_name(name) returns a record with exactly those
\* name, cuisine, price and difficulty and with battles = wins = 0.
C7_RoundTripWithStats ==
    [][ ( /\ last.op = "create_meal"
          /\ last.exc = "none"
          /\ last'.op = "get_meal_by_name"
          /\ last'.args.meal_name = last.args.meal )
        => /\ last'.exc = "none"
           /\ last'.ret.meal = last.args.meal
           /\ last'.ret.cuisine = last.args.cuisine
           /\ last'.ret.price = last.args.price.v
           /\ last'.ret.difficulty = last.args.difficulty
           /\ "battles" \in DOMAIN last'.ret
           /\ last'.ret.battles = 0
           /\ "wins" \in DOMAIN last'.ret
           /\ last'.ret.wins = 0 ]_vars

\* C7 amended: for valid arguments with a name not yet stored, create_meal
\* followed by get_meal_by_name(name) returns a Meal whose fields are exactly
\* id, meal, cuisine, price and difficulty, with those name, cuisine, price and
\* difficulty values and the id of the stored row; the Meal carries no battles
\* or wins, and the stored row of that name has battles = wins = 0.
C7_RoundTripFields ==
    [][ ( /\ last.op = "create_meal"
          /\ last.exc = "none"
          /\ last'.op = "get_meal_by_name"
          /\ last'.args.meal_name = last.args.meal )
        => /\ last'.exc = "none"
           /\ DOMAIN last'.ret = {"kind"} \cup MealFields
           /\ last'.ret.meal = last.args.meal
           /\ last'.ret.cuisine = last.args.cuisine
           /\ last'.ret.price = last.args.price.v
           /\ last'.ret.difficulty = last.args.difficulty
           /\ \E i \in 1 .. Len(meals') :
                 /\ meals'[i].meal = last.args.meal
                 /\ meals'[i].id = last'.ret.id
                 /\ meals'[i].battles = 0
                 /\ meals'[i].wins = 0
                 /\ \A j \in 1 .. Len(meals') :
                       meals'[j].meal = last.args.meal => j = i ]_vars

C7_Witness ==
    /\ last.op = "get_meal_by_name"
    /\ last.args.created
    /\ last.exc = "none"
    /\ last.ret.kind = "Meal"
    /\ last.ret.id = 2
    /\ last.ret.meal = "Soup"
    /\ last.ret.difficulty = "HIGH"

\* the arguments of a create_meal call that its validation must reject
RejectedCreateArgs(a) ==
    \/ ~a.price.num
    \/ a.price.v <= 0
    \/ a.difficulty \notin {"LOW", "MED", "HIGH"}

\* C8: create_meal with price <= 0, a non-numeric price or a difficulty
\* outside {LOW, MED, HIGH} fails with the invalid-input ValueError before any
\* storage access: no connection acquired, no statement executed, table
\* unchanged.
C8_InvalidCreateNeverReachesStorage ==
    [][ (last'.op = "create_meal" /\ RejectedCreateArgs(last'.args))
        => /\ last'.exc = "ValueError"
           /\ last'.msg \in {"Invalid price", "Invalid difficulty level"}
           /\ last'.conns = 0
           /\ last'.stmts = <<>>
           /\ meals' = meals ]_vars

C8_Witness ==
    /\ last.op = "create_meal"
    /\ last.args.price = Num(0)
    /\ last.args.fault = DiskFault
    /\ last.exc = "ValueError"
    /\ last.msg = "Invalid price"
    /\ Len(meals) = 1

C10_DeleteOutcomes ==
    [][ last'.op = "delete_meal"
        => LET meal_id == last'.args.meal_id
           IN  /\ IF ~HasRow(meals, meal_id)
                  THEN /\ last'.exc = "ValueError"
                       /\ last'.msg = "not found"
                       /\ meals' = meals
                  ELSE IF RowWithId(meals, meal_id).deleted
                  THEN /\ last'.exc = "ValueError"
                       /\ last'.msg = "has been deleted"
                       /\ meals' = meals
                  ELSE /\ last'.exc = "none"
                       /\ Len(meals') = Len(meals)
                       /\ \A i \in 1 .. Len(meals) :
                             meals'[i] = IF meals[i].id = meal_id
                                         THEN [meals[i] EXCEPT !.deleted = TRUE]
                                         ELSE meals[i]
               /\ ( /\ last.op = "delete_meal"
                    /\ last.exc = "none"
                    /\ last.args.meal_id = meal_id )
                  => /\ last'.exc = "ValueError"
                     /\ last'.msg = "has been deleted" ]_vars

C10_Witness ==
    /\ last.op = "delete_meal"
    /\ last.exc = "ValueError"
    /\ last.msg = "has been deleted"
    /\ Len(meals) = 2
    /\ meals[last.args.meal_id].deleted
    /\ \E i \in 1 .. Len(meals) : ~meals[i].deleted

\* C11: get_meal_by_id and get_meal_by_name never return a meal whose deleted
\* flag is set: for a flagged record they fail with "has been deleted", for no
\* matching record with the different error "not found", and for a
\* non-deleted record they return its id, name, cuisine, price and difficulty.
C11_LookupsHideDeleted ==
    (last.op \in {"get_meal_by_id", "get_meal_by_name"})
    => LET hits == { i \in 1 .. Len(meals) :
                       IF last.op = "get_meal_by_id"
                       THEN meals[i].id = last.args.meal_id
                       ELSE meals[i].meal = last.args.meal_name }
       IN  IF hits = {}
           THEN last.exc = "ValueError" /\ last.msg = "not found"
           ELSE \A i \in hits :
                  IF meals[i].deleted
                  THEN /\ last.exc = "ValueError"
                       /\ last.msg = "has been deleted"
                       /\ last.ret.kind # "Meal"
                  ELSE /\ last.exc = "none"
                       /\ last.ret.kind = "Meal"
                       /\ last.ret.id = meals[i].id
                       /\ last.ret.meal = meals[i].meal
                       /\ last.ret.cuisine = meals[i].cuisine
                       /\ last.ret.price = meals[i].price
                       /\ last.ret.difficulty = meals[i].difficulty

C11_Witness ==
    /\ last.op = "get_meal_by_name"
    /\ last.msg = "has been deleted"
    /\ Len(meals) = 2
    /\ \E i \in 1 .. 2 : meals[i].meal = last.args.meal_name /\ meals[i].battles > 0
    /\ \E i \in 1 .. 2 : ~meals[i].deleted

\* C12: update_meal_stats(id, result) fails with "not found" when no record
\* has the id and with "has been deleted" when the record is flagged deleted,
\* whatever the result value; in both cases only the deleted-flag SELECT is
\* executed, no UPDATE is issued and the battles and wins of every meal stay.
C12_StatsOnMissingOrDeleted ==
    [][ (last'.op = "update_meal_stats" /\ ~LiveRow(meals, last'.args.meal_id))
        => /\ last'.exc = "ValueError"
           /\ last'.msg = IF HasRow(meals, last'.args.meal_id)
                          THEN "has been deleted" ELSE "not found"
           /\ last'.stmts = <<"SELECT deleted">>
           /\ Len(meals') = Len(meals)
           /\ \A i \in 1 .. Len(meals) :
                 /\ meals'[i].battles = meals[i].battles
                 /\ meals'[i].wins = meals[i].wins ]_vars

C12_Witness ==
    /\ last.op = "update_meal_stats"
    /\ last.args.result = "wins"
    /\ last.msg = "has been deleted"
    /\ last.stmts = <<"SELECT deleted">>
    /\ meals[last.args.meal_id].battles = 1

\* C13: for an existing, non-deleted meal, update_meal_stats(id, result) with
\* any result other than "win" and "loss" (for example "wins" or "draw") fails
\* with the invalid-result error and leaves that meal's battles and wins as
\* they were.
C13_OtherResultsRejected ==
    [][ ( /\ last'.op = "update_meal_stats"
          /\ last'.args.result \notin {"win", "loss"}
          /\ LiveRow(meals, last'.args.meal_id) )
        => /\ last'.exc = "ValueError"
           /\ last'.msg = "Invalid result"
           /\ RowWithId(meals', last'.args.meal_id).battles
                = RowWithId(meals, last'.args.meal_id).battles
           /\ RowWithId(meals', last'.args.meal_id).wins
                = RowWithId(meals, last'.args.meal_id).wins ]_vars

\* C14: constructing a Meal succeeds only if price > 0 and difficulty is one
\* of LOW, MED, HIGH; with price <= 0 (price = 0 included) or another
\* difficulty it fails with a ValueError, so no Meal with price <= 0 exists.
C14_MealNeedsPositivePrice ==
    (last.op = "Meal")
    => IF last.args.price > 0 /\ last.args.difficulty \in {"LOW", "MED", "HIGH"}
       THEN last.exc = "none" /\ last.ret.kind = "Meal"
       ELSE last.exc = "ValueError" /\ last.ret.kind # "Meal"

C16_SlotList ==
    [][ /\ Len(combatants') <= 2
        /\ last'.op = "prep_combatant"
             => IF Len(combatants) = 2
                THEN /\ last'.exc = "ValueError"
                     /\ last'.msg = "Combatant list is full, cannot add more combatants."
                     /\ combatants' = combatants
                ELSE /\ last'.exc = "none"
                     /\ combatants' = combatants \o <<last'.args.meal>>
        /\ last'.op = "get_combatants"
             => /\ last'.exc = "none"
                /\ last'.ret = PyList(combatants)
                /\ combatants' = combatants
        /\ last'.op = "clear_combatants"
             => /\ last'.exc = "none"
                /\ combatants' = <<>> ]_vars

C16_Witness ==
    /\ last.op = "prep_combatant"
    /\ last.msg = "Combatant list is full, cannot add more combatants."
    /\ Len(combatants) = 2
    /\ combatants[1] = combatants[2]
    /\ last.args.meal # combatants[1]

\* the step made calls of update_meal_stats: the handler itself, or battle()
CallsUpdateMealStats(l) ==
    \/ l.op = "update_meal_stats"
    \/ \E k \in 1 .. Len(l.calls) : l.calls[k].fn = "update_meal_stats"

\* C17: in every table reachable from the empty one, every meal has
\* 0 <= wins <= battles, a created meal starts with battles = wins = 0, and
\* only a step that calls update_meal_stats changes the battles or wins of a
\* meal.
C17_CountersInvariant ==
    [][ /\ \A i \in 1 .. Len(meals') :
              0 <= meals'[i].wins /\ meals'[i].wins <= meals'[i].battles
        /\ \A i \in (Len(meals) + 1) .. Len(meals') :
              meals'[i].battles = 0 /\ meals'[i].wins = 0
        /\ ~CallsUpdateMealStats(last')
             => /\ Len(meals') >= Len(meals)
                /\ \A i \in 1 .. Len(meals) :
                      /\ meals'[i].battles = meals[i].battles
                      /\ meals'[i].wins = meals[i].wins ]_vars

C17_Witness ==
    /\ last.op = "delete_meal"
    /\ last.exc = "none"
    /\ Len(meals) = 2
    /\ meals[last.args.meal_id].battles = 2
    /\ meals[last.args.meal_id].wins = 2
    /\ \E i \in 1 .. 2 : meals[i].battles = 0

====
